---- MODULE Spec2Model ----
(***************************************************************************)
(* Model of script.js: a markdown textarea (editor) and a contenteditable  *)
(* rendered view (visual) kept in step by two debounced sync callbacks.    *)
(*                                                                         *)
(* A document is a sequence of blocks.  A markdown block is a string such  *)
(* as "# T"; a rendered block is a string such as "<h1>T</h1>".  The two   *)
(* converters (marked.parse, turndownService.turndown) work block by block *)
(* and are lossy in both directions.  Time is counted in milliseconds; the *)
(* browser's timer table is the sequence timers, in creation order.        *)
(***************************************************************************)
EXTENDS Integers, Sequences, FiniteSets, TLC

VARIABLES
    editor,        \* editor.value: the markdown document
    visual,        \* visual.innerHTML: the rendered document
    localStorage,  \* <<>> when 'md_content' is absent, <<doc>> otherwise
    timers,        \* pending setTimeout entries [dir, rem, ref], oldest first
    onclick,       \* promise the modal's buttons resolve (0: handlers are null)
    suspended,     \* promise id -> command awaiting showCustomPrompt ("" when free)
    loaded,        \* window.onload has run
    track,         \* which of the history variables below are kept
    lastOp,        \* the handler that ran in the last step, with its outcome
    thrown,        \* a converter has thrown since the page loaded
    burst,         \* per direction: wrapper calls since its timer was last idle
    convs,         \* per direction: callback runs since that burst began
    atTrigger,     \* per direction: the source view as the last wrapper call left it
    intervened,    \* per direction: the source was written since, with no wrapper call
    age,           \* per direction: ms since the oldest edit no sync has followed
    sinceTrig,     \* per direction: ms since the last wrapper call for that edit
    touch,         \* the user's last edits, for the alternating-edit scenario
    fresh,         \* how far a first run has got with no user action since onload
    asked,         \* the fields of the prompt confirmed in the last step
    unsaved,       \* localStorage.setItem has thrown since the page loaded
    cleared        \* clearAll has run and the user has not edited since

vars == <<editor, visual, localStorage, timers, onclick, suspended,
          loaded, track, lastOp, thrown, burst, convs, atTrigger, intervened, age,
          sinceTrig, touch, fresh, asked, unsaved, cleared>>

-----------------------------------------------------------------------------
(* Bounds of the model *)

\* Time advances in steps of at most TickMs milliseconds.
TickMs == 25
\* Entries the timer table can hold.
MaxTimers == 3
\* Prompts that can be waiting for the modal at once.
MaxPrompts == 2
\* Wrapper calls counted in one burst (the count saturates).
MaxBurst == 2

-----------------------------------------------------------------------------
(* Program constants *)

\* debounce(..., 50)
Wait == 50

Dirs == {"c2v", "v2c"}

-----------------------------------------------------------------------------
(* Documents *)

\* One block of a document: its kind k and, for a table row, its number of cells n.
Blk(k, n) == [k |-> k, n |-> n]

\* Markdown blocks: "# T", "T\n===" (the same heading, setext style), the two
\* blocks of the default document, and what the insert commands write.
AtxT == Blk("# T", 0)
SetextT == Blk("T/===", 0)
AtxW == Blk("# W", 0)
Para == Blk("p", 0)
Image == Blk("![alt](url)", 0)
Fence == Blk("~~~javascript", 0)
TableHead(c) == Blk("|h|", c)
TableSep(c) == Blk("|---|", c)
TableRow(c) == Blk("|d|", c)

\* Rendered blocks.
H1T == Blk("<h1>T</h1>", 0)
H1uT == Blk("<h1><u>T</u></h1>", 0)
H1W == Blk("<h1>W</h1>", 0)
P == Blk("<p>p</p>", 0)
Img == Blk("<p><img></p>", 0)
Pre == Blk("<pre><code>", 0)
Th(c) == Blk("<tr><th>", c)
Td(c) == Blk("<tr><td>", c)

\* "# ...\n\n..." : a heading and a paragraph
DefaultDoc == <<AtxW, Para>>

\* What the user types into the markdown view (one text only where the table
\* command is examined with all its prompt answers).
UserMarkups == IF "table" \in track THEN {<<AtxT>>} ELSE {<<AtxT>>, <<SetextT>>}
\* What the user leaves in the rendered view after editing it.
UserTrees == IF "table" \in track THEN {<<H1T>>} ELSE {<<H1T>>, <<H1uT>>}
\* Values a previous session may have left in localStorage.
StoredAtStart == {<<>>, << <<>> >>, << <<SetextT>> >>}

RECURSIVE FlatMap(_, _)
FlatMap(F(_), doc) ==
    IF doc = <<>> THEN <<>> ELSE F(Head(doc)) \o FlatMap(F, Tail(doc))

\* marked.parse on one block: both heading styles render alike and a table's
\* separator line leaves no node of its own
RenderBlock(b) ==
    CASE b = AtxT -> <<H1T>>
      [] b = SetextT -> <<H1T>>
      [] b = AtxW -> <<H1W>>
      [] b = Para -> <<P>>
      [] b = Image -> <<Img>>
      [] b = Fence -> <<Pre>>
      [] b.k = "|h|" -> <<Th(b.n)>>
      [] b.k = "|---|" -> <<>>
      [] b.k = "|d|" -> <<Td(b.n)>>

\* turndownService.turndown on one block (headingStyle: 'atx', codeBlockStyle:
\* 'fenced'): markup that markdown cannot express (<u>) is dropped
TurndownBlock(b) ==
    CASE b = H1T -> <<AtxT>>
      [] b = H1uT -> <<AtxT>>
      [] b = H1W -> <<AtxW>>
      [] b = P -> <<Para>>
      [] b = Img -> <<Image>>
      [] b = Pre -> <<Fence>>
      [] b.k = "<tr><th>" -> <<TableHead(b.n), TableSep(b.n)>>
      [] b.k = "<tr><td>" -> <<TableRow(b.n)>>

\* marked.parse(editor.value)
MarkupToTree(m) == FlatMap(RenderBlock, m)

\* turndownService.turndown(visual.innerHTML)
TreeToMarkup(t) == FlatMap(TurndownBlock, t)

-----------------------------------------------------------------------------
(* The browser's timer table and debounce *)

(* An entry of the timer table is [dir, rem, ref]: the direction of the sync  *)
(* its callback runs, the milliseconds left, and the closure variable that    *)
(* holds its id ("none" once that variable has been overwritten).  The        *)
(* variable timeout of a debounce closure is represented by these ref fields: *)
(* it is undefined, or names a timer that has run, when no entry refers to it.*)

\* clearTimeout(timeout), timeout being the closure variable slot
ClearTimeout(ts, slot) == SelectSeq(ts, LAMBDA t : t.ref # slot)

\* timeout = setTimeout(() => func.apply(this, args), wait), for the wrapper of
\* direction d and the closure variable slot
SetTimeout(ts, d, slot) ==
    Append([k \in 1..Len(ts) |->
               IF ts[k].ref = slot THEN [ts[k] EXCEPT !.ref = "none"] ELSE ts[k]],
           [dir |-> d, rem |-> Wait, ref |-> slot])

ClosureShared(d) == "c2v"

\* The closure variable a debounced wrapper keeps its timer id in: each call of
\* debounce declares its own.
Closure(d) == d

DebouncedNoClear(ts, d) == SetTimeout(ts, d, Closure(d))

DebouncedNoReset(ts, d) ==
    IF \E k \in 1..Len(ts) : ts[k].dir = d THEN ts
    ELSE SetTimeout(ClearTimeout(ts, Closure(d)), d, Closure(d))

\* One call of the function debounce returned for direction d.
Debounced(ts, d) == SetTimeout(ClearTimeout(ts, Closure(d)), d, Closure(d))

\* The step calls the debounced wrapper of d once (n = 1) or twice (n = 2).
Trigger(d, n) ==
    LET one == Debounced(timers, d)
        res == IF n = 2 THEN Debounced(one, d) ELSE one
    IN  /\ Len(res) <= MaxTimers
        /\ timers' = res

TimersOf(ts, d) == SelectSeq(ts, LAMBDA t : t.dir = d)

-----------------------------------------------------------------------------
(* The page: the two views and the stored copy.  The gutter's line numbers,  *)
(* which updateGutter rewrites from editor.value, are display only and are   *)
(* left out, as are theme, direction, scroll position and pane sizes.        *)

Page == [editor |-> editor, visual |-> visual, localStorage |-> localStorage]

SetPage(s) ==
    /\ editor' = s.editor
    /\ visual' = s.visual
    /\ localStorage' = s.localStorage

SaveToLocalHtml(s) == [s EXCEPT !.localStorage = <<s.visual>>]

\* localStorage.setItem('md_content', editor.value)
SaveToLocal(s) == [s EXCEPT !.localStorage = <<s.editor>>]

\* How a handler that converts and saves can end: normally, with the converter
\* throwing, or with localStorage.setItem throwing.
Outcomes == {"ok", "convThrows", "saveThrows"}

CodeToVisualSaveFirst(s, out) ==
    LET s0 == SaveToLocal(s)
    IN  IF out = "convThrows" THEN s0 ELSE [s0 EXCEPT !.visual = MarkupToTree(s.editor)]

CodeToVisualFromSaved(s, out) ==
    IF out = "convThrows" \/ s.localStorage = <<>> THEN s
    ELSE LET s1 == [s EXCEPT !.visual = MarkupToTree(s.localStorage[1])]
         IN  IF out = "saveThrows" THEN s1 ELSE SaveToLocal(s1)

\* Body of the callback debounced as syncCodeToVisual.
CodeToVisual(s, out) ==
    IF out = "convThrows" THEN s
    ELSE LET s1 == [s EXCEPT !.visual = MarkupToTree(s.editor)]
         IN  IF out = "saveThrows" THEN s1 ELSE SaveToLocal(s1)

VisualToCodeSaveFirst(s, out) ==
    IF out = "convThrows" THEN s
    ELSE LET s0 == IF out = "saveThrows" THEN s ELSE SaveToLocal(s)
         IN  [s0 EXCEPT !.editor = TreeToMarkup(s.visual)]

VisualToCodeSaveGuard(s, out) ==
    IF out # "ok" THEN s
    ELSE SaveToLocal([s EXCEPT !.editor = TreeToMarkup(s.visual)])

VisualToCodeFromSnapshot(s, out) ==
    IF out = "convThrows" THEN s
    ELSE LET s1 == [s EXCEPT !.editor = TreeToMarkup(atTrigger["v2c"])]
         IN  IF out = "saveThrows" THEN s1 ELSE SaveToLocal(s1)

\* Body of the callback debounced as syncVisualToCode.
VisualToCode(s, out) ==
    IF out = "convThrows" THEN s
    ELSE LET s1 == [s EXCEPT !.editor = TreeToMarkup(s.visual)]
         IN  IF out = "saveThrows" THEN s1 ELSE SaveToLocal(s1)

Callback(d, s, out) == IF d = "c2v" THEN CodeToVisual(s, out) ELSE VisualToCode(s, out)

CallbackTriggersInput(d) == {IF d = "c2v" THEN "v2c" ELSE "c2v"}

\* The debounced wrappers a sync callback calls while it runs: none, since
\* assigning visual.innerHTML or editor.value fires no input event.
CallbackTriggers(d) == {}

-----------------------------------------------------------------------------
(* History variables.  They record what happened and never influence a step. *)
(* A specification keeps only those named in track; the others stay frozen.  *)
(* Where track names a direction, the per-direction variables are kept for   *)
(* that direction alone, each behaviour watching one direction.              *)

Max(a, b) == IF a >= b THEN a ELSE b
Min(a, b) == IF a <= b THEN a ELSE b

Op(name, d, out) == [op |-> name, dir |-> d, out |-> out]

\* The direction whose debounced wrapper the handler of step o calls.
TrigDir(o) ==
    IF o.op \in {"onload", "insert", "confirm"} THEN "c2v"
    ELSE IF o.op = "input" THEN o.dir ELSE "none"

\* Steps in which the user edits a view.
EditOps == {"input", "insert", "confirm"}

Other(d) == IF d = "c2v" THEN "v2c" ELSE "c2v"

\* The view a sync of direction d converts from.
Source(d) == IF d = "c2v" THEN editor ELSE visual
SourceNext(d) == IF d = "c2v" THEN editor' ELSE visual'
\* The view a sync of direction d writes.
Target(d) == IF d = "c2v" THEN visual ELSE editor
TargetNext(d) == IF d = "c2v" THEN visual' ELSE editor'

Convert(d, doc) == IF d = "c2v" THEN MarkupToTree(doc) ELSE TreeToMarkup(doc)

NoAge == 0 - 1
\* The delay the bounded-propagation statement is tried with.
DelayBound == 2 * Wait
AgeCap == DelayBound + TickMs

Elapsed == IF timers = <<>> \/ timers' = <<>> \/ Len(timers) # Len(timers') THEN 0
           ELSE timers[1].rem - timers'[1].rem

NoTouch == [scen |-> "void", last |-> "none", doc |-> <<>>]

TouchAfter(o) ==
    IF o.op \in EditOps
    THEN LET v == TrigDir(o)
         IN  IF touch.scen = "one" /\ v # touch.last /\ TimersOf(timers, touch.last) # <<>>
             THEN [scen |-> "two", last |-> v, doc |-> SourceNext(v)]
             ELSE [scen |-> "one", last |-> v, doc |-> SourceNext(v)]
    ELSE IF o.op = "clearAll" \/ (o.op = "fire" /\ o.out # "ok") THEN NoTouch
    ELSE touch

\* Steps in which the user acts on the page.
UserOps == EditOps \cup {"prompt", "cancel", "clearAll"}

\* "first": onload found nothing stored and its sync is pending; "synced": that
\* sync has run its conversion; "void" otherwise, and after any user action.
FreshAfter(o) ==
    IF o.op = "onload" THEN (IF localStorage = <<>> THEN "first" ELSE "void")
    ELSE IF o.op \in UserOps THEN "void"
    ELSE IF o.op = "fire"
         THEN IF o.out = "convThrows" THEN "void"
              ELSE IF fresh = "first" /\ o.dir = "c2v" THEN "synced" ELSE fresh
    ELSE fresh

\* The value of asked when the last step confirmed no prompt.
NoAnswer == [rows |-> 0 - 9, cols |-> 0 - 9]

\* o is the step taken, n the number of calls it makes of a debounced wrapper.
Hist(o, n) ==
    /\ track' = track
    /\ lastOp' = IF "ops" \in track THEN o ELSE lastOp
    /\ thrown' = IF "fail" \in track
                 THEN thrown \/ (o.op = "fire" /\ o.out = "convThrows") ELSE thrown
    /\ burst' = IF "burst" \in track
                THEN [d \in Dirs |->
                        IF TrigDir(o) = d
                        THEN IF TimersOf(timers, d) = <<>> THEN Min(n, MaxBurst)
                             ELSE Min(burst[d] + n, MaxBurst)
                        ELSE burst[d]]
                ELSE burst
    /\ convs' = IF "burst" \in track
                THEN [d \in Dirs |->
                        IF TrigDir(o) = d
                        THEN IF TimersOf(timers, d) = <<>> THEN 0 ELSE convs[d]
                        ELSE IF o.op = "fire" /\ o.dir = d THEN Min(convs[d] + 1, 2)
                        ELSE convs[d]]
                ELSE convs
    /\ atTrigger' = IF "snap" \in track
                    THEN [d \in Dirs |->
                            IF d \in track /\ TrigDir(o) = d THEN SourceNext(d)
                            ELSE atTrigger[d]]
                    ELSE atTrigger
    /\ intervened' = IF "snap" \in track
                     THEN [d \in Dirs |->
                             IF d \notin track THEN intervened[d]
                             ELSE IF TrigDir(o) = d THEN FALSE
                             ELSE IF TimersOf(timers, d) # <<>>
                                     /\ \/ o.op = "clearAll"
                                        \/ o.op = "fire" /\ o.dir # d /\ o.out # "convThrows"
                                  THEN TRUE
                             ELSE intervened[d]]
                     ELSE intervened
    /\ age' = IF "age" \in track
              THEN [d \in Dirs |->
                      IF d \notin track THEN age[d]
                      ELSE IF o.op = "fire" /\ o.dir = d THEN NoAge
                      ELSE IF TrigDir(o) = d /\ o.op \in EditOps
                           THEN (IF age[d] = NoAge THEN 0 ELSE age[d])
                      ELSE IF o.op = "tick" /\ age[d] # NoAge
                           THEN Min(age[d] + Elapsed, AgeCap)
                      ELSE age[d]]
              ELSE age
    /\ sinceTrig' = IF "age" \in track
                    THEN [d \in Dirs |->
                            IF d \notin track THEN sinceTrig[d]
                            ELSE IF o.op = "fire" /\ o.dir = d THEN NoAge
                            ELSE IF TrigDir(o) = d /\ o.op \in EditOps THEN 0
                            ELSE IF o.op = "tick" /\ sinceTrig[d] # NoAge
                                 THEN Min(sinceTrig[d] + Elapsed, AgeCap)
                            ELSE sinceTrig[d]]
                    ELSE sinceTrig
    /\ touch' = IF "touch" \in track THEN TouchAfter(o) ELSE touch
    /\ fresh' = IF "load" \in track THEN FreshAfter(o) ELSE fresh
    /\ IF o.op = "confirm" THEN TRUE ELSE asked' = NoAnswer
    /\ unsaved' = IF "save" \in track THEN unsaved \/ o.out = "saveThrows" ELSE unsaved
    /\ cleared' = IF "clear" \in track
                  THEN IF o.op = "clearAll" THEN o.out = "ok"
                       ELSE IF o.op \in EditOps THEN FALSE ELSE cleared
                  ELSE cleared

-----------------------------------------------------------------------------
(* Insertion into the markdown view *)

\* The selection of the textarea when a command runs, as <<start, end>>: the
\* whole text selected (in an empty document, the caret).
Selections(doc) == {<<0, Len(doc)>>}

\* value.substring(0, start) + text + value.substring(end)
Splice(doc, text, se) ==
    SubSeq(doc, 1, se[1]) \o text \o SubSeq(doc, se[2] + 1, Len(doc))

\* parseInt(x) || dflt, a field that holds no number being read as 0
ParseIntOr(x, dflt) == IF x = 0 THEN dflt ELSE x

MarkdownTableRowsData(res) ==
    LET rows == Max(2, ParseIntOr(res.rows, 3))
        cols == Max(1, ParseIntOr(res.cols, 2))
    IN  <<TableHead(cols), TableSep(cols)>> \o [i \in 1..rows |-> TableRow(cols)]

\* The text insertMarkdownTable builds from the two fields of its prompt.
MarkdownTable(res) ==
    LET rows == Max(2, ParseIntOr(res.rows, 3))
        cols == Max(1, ParseIntOr(res.cols, 2))
    IN  <<TableHead(cols), TableSep(cols)>> \o [i \in 1..(rows - 1) |-> TableRow(cols)]

\* Numbers tried in the prompt's fields where the table itself is examined:
\* 0 stands for a field parseInt reads no number from (or reads 0 from).
RowValues == {0, 1, 3}
ColValues == {0, 1, 2}

\* What the user can leave in the prompt's fields before confirming: the
\* defaults, or no numbers at all.
PromptResults ==
    IF "table" \in track THEN [rows : RowValues, cols : ColValues]
    ELSE {[rows |-> 3, cols |-> 2], [rows |-> 0, cols |-> 0]}

ResumeUnchecked(cmd, res) ==
    IF cmd = "image" THEN <<Image>>
    ELSE <<TableHead(2), TableSep(2), TableRow(2), TableRow(2)>>

\* What the command that awaited the prompt inserts once the promise resolves:
\* res is <<>> for null (cancelled) and <<fields>> otherwise; the result <<>>
\* stands for no insertion.
Resume(cmd, res) ==
    IF res = <<>> THEN <<>>
    ELSE IF cmd = "image" THEN <<Image>> ELSE MarkdownTable(res[1])

InsertTriggersNoManualSync(supported) == IF supported THEN 1 ELSE 0

\* Calls of syncCodeToVisual that one insertTextAtCursor makes: by the input
\* listener when execCommand inserts the text, by the fallback's own call
\* otherwise.
InsertTriggers(supported) == IF supported THEN 1 ELSE 1

\* insertTextAtCursor(text): with insertText supported the browser replaces the
\* selection and fires the input event, whose listener calls syncCodeToVisual;
\* otherwise the value is spliced by hand and syncCodeToVisual is called.
InsertTextAtCursor(text, se, supported) ==
    /\ editor' = Splice(editor, text, se)
    /\ IF InsertTriggers(supported) = 0 THEN UNCHANGED timers
       ELSE Trigger("c2v", InsertTriggers(supported))
    /\ UNCHANGED <<visual, localStorage>>

-----------------------------------------------------------------------------
(* Handlers *)

\* The page as the script finds it, before window.onload.
Start ==
    /\ editor = <<>>
    /\ visual = <<>>
    /\ localStorage \in StoredAtStart
    /\ timers = <<>>
    /\ onclick = 0
    /\ suspended = [p \in 1..MaxPrompts |-> ""]
    /\ loaded = FALSE
    /\ lastOp = Op("init", "none", "ok")
    /\ thrown = FALSE
    /\ burst = [d \in Dirs |-> 0]
    /\ convs = [d \in Dirs |-> 0]
    /\ atTrigger = [d \in Dirs |-> <<>>]
    /\ intervened = [d \in Dirs |-> FALSE]
    /\ age = [d \in Dirs |-> NoAge]
    /\ sinceTrig = [d \in Dirs |-> NoAge]
    /\ touch = NoTouch
    /\ fresh = "void"
    /\ asked = NoAnswer
    /\ unsaved = FALSE
    /\ cleared = FALSE

Init == Start /\ track = {"ops"}
InitFail == Start /\ track = {"ops", "fail"}
InitBurst == Start /\ track = {"burst"}
InitSnap == Start /\ \E d \in Dirs : track = {"ops", "snap", d}
InitAge == Start /\ \E d \in Dirs : track = {"age", d}
InitTouch == Start /\ track = {"touch"}
InitLoad == Start /\ track = {"ops", "load"}
InitTable == Start /\ track = {"ops", "table"}
InitSave == Start /\ track = {"ops", "save"}
InitDurable == Start /\ track = {"fail", "save"}
InitClear == Start /\ track = {"ops", "clear"}

OnLoadNoSync ==
    /\ ~loaded
    /\ loaded' = TRUE
    /\ editor' = IF localStorage = <<>> \/ localStorage[1] = <<>>
                 THEN DefaultDoc ELSE localStorage[1]
    /\ Hist(Op("onload", "c2v", "ok"), 0)
    /\ UNCHANGED <<visual, localStorage, timers, onclick, suspended>>

\* window.onload
OnLoad ==
    /\ ~loaded
    /\ loaded' = TRUE
    /\ editor' = IF localStorage = <<>> \/ localStorage[1] = <<>>
                 THEN DefaultDoc ELSE localStorage[1]
    /\ Trigger("c2v", 1)
    /\ Hist(Op("onload", "c2v", "ok"), 1)
    /\ UNCHANGED <<visual, localStorage, onclick, suspended>>

\* The user types in the markdown view: the input listener of editor.
EditorInput(m) ==
    /\ loaded
    /\ m # editor
    /\ editor' = m
    /\ Trigger("c2v", 1)
    /\ Hist(Op("input", "c2v", "ok"), 1)
    /\ UNCHANGED <<visual, localStorage, onclick, suspended, loaded>>

\* The user edits the rendered view: the input listener of visual.
VisualInput(t) ==
    /\ loaded
    /\ t # visual
    /\ visual' = t
    /\ Trigger("v2c", 1)
    /\ Hist(Op("input", "v2c", "ok"), 1)
    /\ UNCHANGED <<editor, localStorage, onclick, suspended, loaded>>

\* execCmd(command): a formatting command, undo or redo on the rendered view.
\* When it changes the view the input listener runs before execCmd's own call
\* of syncVisualToCode.
ExecCmd(t) ==
    /\ loaded
    /\ visual' = t
    /\ Trigger("v2c", IF t # visual THEN 2 ELSE 1)
    /\ Hist(Op("input", "v2c", "ok"), IF t # visual THEN 2 ELSE 1)
    /\ UNCHANGED <<editor, localStorage, onclick, suspended, loaded>>

InsertCode(se, supported) ==
    /\ loaded
    /\ InsertTextAtCursor(<<Fence>>, se, supported)
    /\ Hist(Op("insert", "c2v", "ok"), 1)
    /\ UNCHANGED <<onclick, suspended, loaded>>

\* showCustomPrompt on behalf of cmd: a new promise, which the modal's two
\* buttons now resolve; the command is suspended on it.
ShowCustomPrompt(cmd) ==
    /\ loaded
    /\ \E p \in 1..MaxPrompts : suspended[p] = ""
    /\ LET p == CHOOSE q \in 1..MaxPrompts :
                    suspended[q] = "" /\ \A r \in 1..(q - 1) : suspended[r] # ""
       IN  /\ suspended' = [suspended EXCEPT ![p] = cmd]
           /\ onclick' = p
    /\ Hist(Op("prompt", cmd, "ok"), 0)
    /\ UNCHANGED <<editor, visual, localStorage, timers, loaded>>

InsertImage == ShowCustomPrompt("image")

InsertMarkdownTable == ShowCustomPrompt("table")

CloseOldest(val, se, supported) ==
    /\ onclick # 0
    /\ onclick' = 0
    /\ LET p == CHOOSE q \in 1..MaxPrompts :
                    suspended[q] # "" /\ \A r \in 1..(q - 1) : suspended[r] = ""
           text == Resume(suspended[p], val)
       IN  /\ suspended' = [suspended EXCEPT ![p] = ""]
           /\ IF text = <<>>
              THEN UNCHANGED <<editor, visual, localStorage, timers>>
              ELSE InsertTextAtCursor(text, se, supported)
    /\ UNCHANGED loaded

\* close(val) from either button of the modal, after which the command
\* suspended on the promise resumes with val.
Close(val, se, supported) ==
    /\ onclick # 0
    /\ onclick' = 0
    /\ suspended' = [suspended EXCEPT ![onclick] = ""]
    /\ LET text == Resume(suspended[onclick], val)
       IN  IF text = <<>>
           THEN UNCHANGED <<editor, visual, localStorage, timers>>
           ELSE InsertTextAtCursor(text, se, supported)
    /\ UNCHANGED loaded

\* modalConfirm.onclick
ModalConfirm(res, se, supported) ==
    /\ Close(<<res>>, se, supported)
    /\ asked' = IF "table" \in track /\ suspended[onclick] = "table" THEN res ELSE NoAnswer
    /\ Hist(Op("confirm", suspended[onclick], "ok"), 1)

\* modalCancel.onclick
ModalCancel ==
    /\ Close(<<>>, <<0, 0>>, TRUE)
    /\ Hist(Op("cancel", suspended[onclick], "ok"), 0)

ClearAllNoSave(out) ==
    /\ loaded
    /\ out # "convThrows"
    /\ SetPage([Page EXCEPT !.editor = <<>>, !.visual = <<>>])
    /\ Hist(Op("clearAll", "none", out), 0)
    /\ UNCHANGED <<timers, onclick, suspended, loaded>>

ClearAllKeepsVisual(out) ==
    /\ loaded
    /\ out # "convThrows"
    /\ LET s1 == [Page EXCEPT !.editor = <<>>]
       IN  SetPage(IF out = "saveThrows" THEN s1 ELSE SaveToLocal(s1))
    /\ Hist(Op("clearAll", "none", out), 0)
    /\ UNCHANGED <<timers, onclick, suspended, loaded>>

\* clearAll, the confirm dialog answered with OK.
ClearAll(out) ==
    /\ loaded
    /\ out # "convThrows"
    /\ LET s1 == [Page EXCEPT !.editor = <<>>, !.visual = <<>>]
       IN  SetPage(IF out = "saveThrows" THEN s1 ELSE SaveToLocal(s1))
    /\ Hist(Op("clearAll", "none", out), 0)
    /\ UNCHANGED <<timers, onclick, suspended, loaded>>

\* Index of the timer the event loop runs next: the oldest one that is due.
Due(ts) == CHOOSE k \in 1..Len(ts) : ts[k].rem = 0 /\ \A j \in 1..(k - 1) : ts[j].rem # 0

RECURSIVE TriggerAll(_, _)
TriggerAll(ts, ds) ==
    IF ds = {} THEN ts
    ELSE LET d == CHOOSE x \in ds : TRUE IN TriggerAll(Debounced(ts, d), ds \ {d})

\* A due timer runs the callback it was set with.
TimerFire(out) ==
    /\ \E k \in 1..Len(timers) : timers[k].rem = 0
    /\ LET k == Due(timers)
           d == timers[k].dir
           rest == SubSeq(timers, 1, k - 1) \o SubSeq(timers, k + 1, Len(timers))
       IN  /\ timers' = IF out = "convThrows" THEN rest
                        ELSE TriggerAll(rest, CallbackTriggers(d))
           /\ SetPage(Callback(d, Page, out))
           /\ Hist(Op("fire", d, out), 0)
    /\ UNCHANGED <<onclick, suspended, loaded>>

\* Time passes, by at most TickMs and never past the moment a timer is due.
Tick ==
    /\ timers # <<>>
    /\ \A k \in 1..Len(timers) : timers[k].rem > 0
    /\ LET dt == CHOOSE x \in 1..TickMs :
                    /\ \A k \in 1..Len(timers) : x <= timers[k].rem
                    /\ \A y \in (x + 1)..TickMs : \E k \in 1..Len(timers) : y > timers[k].rem
       IN  timers' = [k \in 1..Len(timers) |-> [timers[k] EXCEPT !.rem = @ - dt]]
    /\ Hist(Op("tick", "none", "ok"), 0)
    /\ UNCHANGED <<editor, visual, localStorage, onclick, suspended,
                   loaded>>

Next ==
    \/ OnLoad
    \/ \E m \in UserMarkups : EditorInput(m)
    \/ \E t \in UserTrees : VisualInput(t)
    \/ \E t \in UserTrees : ExecCmd(t)
    \/ \E se \in Selections(editor), supported \in BOOLEAN : InsertCode(se, supported)
    \/ InsertImage
    \/ InsertMarkdownTable
    \/ \E res \in PromptResults, se \in Selections(editor), supported \in BOOLEAN :
          ModalConfirm(res, se, supported)
    \/ ModalCancel
    \/ \E out \in Outcomes : ClearAll(out)
    \/ \E out \in Outcomes : TimerFire(out)
    \/ Tick

Spec == Init /\ [][Next]_vars
SpecFail == InitFail /\ [][Next]_vars
SpecBurst == InitBurst /\ [][Next]_vars
SpecSnap == InitSnap /\ [][Next]_vars
SpecAge == InitAge /\ [][Next]_vars
SpecTouch == InitTouch /\ [][Next]_vars
SpecLoad == InitLoad /\ [][Next]_vars
SpecTable == InitTable /\ [][Next]_vars
SpecSave == InitSave /\ [][Next]_vars
SpecDurable == InitDurable /\ [][Next]_vars
SpecClear == InitClear /\ [][Next]_vars

-----------------------------------------------------------------------------
(* Properties *)

Without(ts, k) == SubSeq(ts, 1, k - 1) \o SubSeq(ts, k + 1, Len(ts))

\* C1: when the markup->tree sync fires and completes, the rendered view is
\* the conversion of the markdown text as it was when the sync fired, the
\* markdown text is unchanged and the stored value is that markdown text.
C1_CodeToVisualSync ==
    [][lastOp' = Op("fire", "c2v", "ok") =>
          /\ visual' = MarkupToTree(editor)
          /\ editor' = editor
          /\ localStorage' = <<editor>>]_vars

C1_Witness ==
    /\ lastOp = Op("fire", "c2v", "ok")
    /\ editor = <<SetextT>>
    /\ visual = <<H1T>>
    /\ localStorage = << <<SetextT>> >>

\* C2: when the tree->markup sync fires and completes, the markdown text is
\* the conversion of the rendered view as it was when the sync fired, the
\* rendered view is unchanged and the stored value is the new markdown text.
C2_VisualToCodeSync ==
    [][lastOp' = Op("fire", "v2c", "ok") =>
          /\ editor' = TreeToMarkup(visual)
          /\ visual' = visual
          /\ localStorage' = <<TreeToMarkup(visual)>>]_vars

C2_Witness ==
    /\ lastOp = Op("fire", "v2c", "ok")
    /\ visual = <<H1uT>>
    /\ editor = <<AtxT>>
    /\ localStorage = << <<AtxT>> >>

\* C3: any number of calls of one debounced wrapper, each made while the
\* timer of the previous call is still pending, lead to exactly one run of
\* that direction's callback, after the last call: while the burst lasts one
\* timer of that direction is pending and the callback has not run; once it
\* has run, nothing of that direction is left pending.
C3_OneSyncPerBurst ==
    \A d \in Dirs :
        LET mine == TimersOf(timers, d)
        IN  /\ convs[d] <= 1
            /\ burst[d] >= 1 => (convs[d] = 0 <=> mine # <<>>)
            /\ mine # <<>> => burst[d] >= 1 /\ Len(mine) = 1 /\ mine[1].rem <= Wait

C3_Witness ==
    /\ burst["c2v"] = MaxBurst
    /\ convs["c2v"] = 1
    /\ TimersOf(timers, "c2v") = <<>>

C5_NoFeedbackLoop ==
    [][/\ lastOp'.op = "fire" =>
              \E k \in 1..Len(timers) : timers[k].rem = 0 /\ timers' = Without(timers, k)
       /\ lastOp'.op \in {"fire", "tick", "cancel", "prompt", "clearAll"} =>
              Len(timers') <= Len(timers)]_vars

C5_Witness ==
    /\ lastOp = Op("fire", "v2c", "ok")
    /\ timers = <<>>

\* C6 as claimed: when the user edits one view and, before that edit's sync
\* has fired, the other view, then once both syncs have fired the view edited
\* last still holds what the user gave it.
C6_LastTouchedKeepsContent ==
    touch.scen = "two" /\ timers = <<>> => Source(touch.last) = touch.doc

\* C7: a call of one direction's debounced wrapper leaves the other
\* direction's pending timer as it was, and leaves its own direction with one
\* timer, due a full delay later.
C7_WrappersIndependent ==
    [][\A d \in Dirs :
          TrigDir(lastOp') = d =>
              /\ TimersOf(timers', Other(d)) = TimersOf(timers, Other(d))
              /\ Len(TimersOf(timers', d)) = 1
              /\ TimersOf(timers', d)[1].rem = Wait]_vars

C7_Witness ==
    /\ lastOp = Op("input", "v2c", "ok")
    /\ Len(timers) = 2
    /\ timers[1].dir = "c2v"
    /\ timers[1].rem < Wait
    /\ timers[2] = [dir |-> "v2c", rem |-> Wait, ref |-> "v2c"]

\* C8 as claimed, with twice the debounce delay as the fixed bound: no edit
\* waits longer than that for a sync of its direction.
C8_BoundedDelay == \A d \in Dirs \cap track : age[d] <= DelayBound

\* C8 as amended: an edit that no sync has followed yet has exactly one timer
\* of its direction pending, due one debounce delay after the last wrapper
\* call of that direction; the edit itself may be older than that.
C8_SyncAfterLastTrigger ==
    \A d \in Dirs \cap track :
        age[d] # NoAge =>
            /\ Len(TimersOf(timers, d)) = 1
            /\ TimersOf(timers, d)[1].rem = Wait - sinceTrig[d]
            /\ age[d] >= sinceTrig[d]

C8_Witness ==
    \E d \in Dirs :
        /\ age[d] > Wait
        /\ sinceTrig[d] < Wait
        /\ TimersOf(timers, d) # <<>>

\* C9: cancelling the prompt of insertImage or insertMarkdownTable changes
\* neither view nor the stored value and schedules no sync.
C9_CancelAborts ==
    [][lastOp'.op = "cancel" => UNCHANGED <<editor, visual, localStorage, timers>>]_vars

C9_Witness ==
    /\ lastOp = Op("cancel", "image", "ok")
    /\ timers = <<>>
    /\ onclick = 0

\* C10: a sync whose converter throws changes neither view nor the stored
\* value; afterwards a wrapper call still schedules its sync and a sync that
\* fires still converts and saves.
C10_ConversionFailureIsLocal ==
    [][/\ lastOp'.op = "fire" /\ lastOp'.out = "convThrows" =>
              UNCHANGED <<editor, visual, localStorage>>
       /\ thrown =>
              \A d \in Dirs :
                  /\ TrigDir(lastOp') = d =>
                        /\ Len(TimersOf(timers', d)) = 1
                        /\ TimersOf(timers', d)[1].rem = Wait
                  /\ lastOp' = Op("fire", d, "ok") =>
                        /\ TargetNext(d) = Convert(d, Source(d))
                        /\ SourceNext(d) = Source(d)
                        /\ localStorage' = <<editor'>>]_vars

C10_Witness ==
    /\ thrown
    /\ lastOp.op = "fire"
    /\ lastOp.out = "ok"
    /\ localStorage = <<editor>>
    /\ editor # <<>>

\* C11 as claimed: a handler that edits on the user's behalf (typing, execCmd,
\* an insert command, clearAll) changes one view only, leaves the stored value
\* alone, and leaves a sync pending from the view it changed.
C11_CommandsUseSyncPath ==
    [][lastOp'.op \in EditOps \cup {"clearAll"} =>
          /\ localStorage' = localStorage
          /\ editor' = editor \/ visual' = visual
          /\ editor' # editor => TimersOf(timers', "c2v") # <<>>
          /\ visual' # visual => TimersOf(timers', "v2c") # <<>>]_vars

\* C12 as claimed: window.onload puts the stored value into the markdown view
\* whenever one is stored, the empty text included, and the default document
\* only when nothing is stored.
C12_LoadsPersistedValue ==
    [][lastOp'.op = "onload" =>
          editor' = IF localStorage = <<>> THEN DefaultDoc ELSE localStorage[1]]_vars

\* C13: on a first run (nothing stored) the markdown view holds the default
\* document with a markup->tree sync pending, and once that sync has run with
\* no user action in between the rendered view is the default document
\* rendered.
C13_FirstRunShowsDefault ==
    /\ fresh = "first" => editor = DefaultDoc /\ Len(TimersOf(timers, "c2v")) = 1
    /\ fresh = "synced" => editor = DefaultDoc /\ visual = MarkupToTree(DefaultDoc)

C13_Witness ==
    /\ fresh = "synced"
    /\ timers = <<>>
    /\ visual = <<H1W, P>>

\* C14: confirming the table prompt with fields rows and cols replaces the
\* selection by a header line of C cells, a separator line of C cells and R-1
\* data lines of C cells, where R = max(2, rows) and C = max(1, cols) and a
\* field holding no non-zero number counts as 3 rows or 2 columns; the step
\* leaves exactly one markup->tree sync pending, a full delay away, whether or
\* not the browser supports insertText, and touches nothing else.
C14_TableInsertion ==
    [][lastOp' = Op("confirm", "table", "ok") =>
          LET r == IF asked'.rows = 0 THEN 3 ELSE asked'.rows
              c == IF asked'.cols = 0 THEN 2 ELSE asked'.cols
              R == IF r > 2 THEN r ELSE 2
              C == IF c > 1 THEN c ELSE 1
          IN  /\ Len(editor') = R + 1
              /\ editor'[1] = TableHead(C)
              /\ editor'[2] = TableSep(C)
              /\ \A i \in 3..(R + 1) : editor'[i] = TableRow(C)
              /\ Len(TimersOf(timers', "c2v")) = 1
              /\ TimersOf(timers', "c2v")[1].rem = Wait
              /\ TimersOf(timers', "v2c") = TimersOf(timers, "v2c")
              /\ UNCHANGED <<visual, localStorage>>]_vars

C14_Witness ==
    /\ lastOp = Op("confirm", "table", "ok")
    /\ asked = [rows |-> 3, cols |-> 2]
    /\ editor = <<TableHead(2), TableSep(2), TableRow(2), TableRow(2)>>
    /\ Len(TimersOf(timers, "c2v")) = 1

\* C15: a sync in which localStorage.setItem throws has still written the
\* conversion of its source to its target, leaving the source and the stored
\* value as they were; afterwards a wrapper call of either direction still
\* schedules its sync and a sync that fires still converts and saves.
C15_PersistenceFailureNonFatal ==
    [][\A d \in Dirs :
          /\ lastOp' = Op("fire", d, "saveThrows") =>
                /\ TargetNext(d) = Convert(d, Source(d))
                /\ SourceNext(d) = Source(d)
                /\ localStorage' = localStorage
          /\ unsaved =>
                /\ TrigDir(lastOp') = d =>
                      /\ Len(TimersOf(timers', d)) = 1
                      /\ TimersOf(timers', d)[1].rem = Wait
                /\ lastOp' = Op("fire", d, "ok") =>
                      /\ TargetNext(d) = Convert(d, Source(d))
                      /\ localStorage' = <<editor'>>]_vars

C15_Witness ==
    /\ unsaved
    /\ lastOp = Op("fire", "v2c", "ok")
    /\ visual = <<H1uT>>
    /\ editor = <<AtxT>>
    /\ localStorage = <<editor>>

\* C16: no direction ever has more than one timer pending, and never more
\* than one timer refers to a wrapper's closure variable.
C16_OnePendingPerDirection ==
    \A d \in Dirs :
        /\ Len(TimersOf(timers, d)) <= 1
        /\ Len(SelectSeq(timers, LAMBDA t : t.ref = Closure(d))) <= 1

C16_Witness ==
    /\ lastOp = Op("input", "c2v", "ok")
    /\ Len(timers) = 2
    /\ timers[1].dir = "v2c"
    /\ timers[1].rem < Wait
    /\ timers[2] = [dir |-> "c2v", rem |-> Wait, ref |-> "c2v"]

\* C17: a sync that runs its conversion, whether or not the save that follows
\* succeeds, writes to its target the conversion of the source as the source
\* is in the state the timer fires in.
C17_ReadsSourceAtFire ==
    [][\A d \in Dirs \cap track :
          lastOp'.op = "fire" /\ lastOp'.dir = d /\ lastOp'.out # "convThrows" =>
              TargetNext(d) = Convert(d, Source(d))]_vars

C17_Witness ==
    /\ "v2c" \in track
    /\ lastOp = Op("fire", "v2c", "ok")
    /\ intervened["v2c"]
    /\ atTrigger["v2c"] = <<H1uT>>
    /\ visual = <<H1T>>
    /\ editor = <<AtxT>>

\* C18: a prompt that is no longer the one the modal's buttons resolve stays
\* unresolved, its command suspended; a click on confirm or cancel resolves
\* the prompt opened last and no other, and leaves the buttons without
\* handlers, so that no promise is resolved twice.
C18_OnlyLatestPromptResolves ==
    [][/\ \A p \in 1..MaxPrompts :
              suspended[p] # "" /\ onclick # p =>
                  suspended'[p] = suspended[p] /\ onclick' # p
       /\ lastOp'.op \in {"confirm", "cancel"} =>
              /\ onclick # 0
              /\ onclick' = 0
              /\ lastOp'.dir = suspended[onclick]
              /\ suspended' = [suspended EXCEPT ![onclick] = ""]
       /\ lastOp'.op = "prompt" => onclick' # 0 /\ suspended[onclick'] = ""]_vars

C18_Witness ==
    /\ lastOp = Op("confirm", "table", "ok")
    /\ suspended = <<"image", "">>
    /\ onclick = 0

\* C19: once the page has loaded and every pending sync has fired, with no
\* converter and no localStorage.setItem having thrown, the stored value is
\* the markdown text.
C19_StoredIsMarkupWhenIdle ==
    loaded /\ timers = <<>> /\ ~thrown /\ ~unsaved => localStorage = <<editor>>

C19_Witness ==
    /\ loaded
    /\ timers = <<>>
    /\ ~thrown
    /\ ~unsaved
    /\ visual = <<H1uT>>
    /\ editor = <<AtxT>>
    /\ localStorage = << <<AtxT>> >>

\* C20: clearAll empties both views and the stored value at once and leaves
\* the timer table as it was; as long as the user does not edit afterwards,
\* every sync that then fires leaves all three empty.
C20_ClearStaysEmpty ==
    [][/\ lastOp' = Op("clearAll", "none", "ok") =>
              /\ editor' = <<>>
              /\ visual' = <<>>
              /\ localStorage' = << <<>> >>
              /\ timers' = timers
       /\ cleared /\ lastOp'.op = "fire" =>
              /\ editor' = <<>>
              /\ visual' = <<>>
              /\ localStorage' = << <<>> >>]_vars

C20_Witness ==
    /\ cleared
    /\ lastOp = Op("fire", "v2c", "ok")
    /\ timers = <<>>
    /\ editor = <<>>
    /\ visual = <<>>
    /\ localStorage = << <<>> >>

====
